---- MODULE Spec2Model ----
(***************************************************************************)
(* McKay-Wormald random pairing (configuration model):                     *)
(* src/src/nx_arxivgen/generators/mckay_wormald.py.                        *)
(*                                                                         *)
(* A Python list is a TLA+ sequence: the element at Python index k is the  *)
(* element at TLA+ index k+1.  Points and cells keep their Python values   *)
(* (0-based).  Every per-invocation variable is a sequence indexed by the  *)
(* invocation, so that one or two invocations can run side by side.        *)
(***************************************************************************)
EXTENDS Integers, Sequences, FiniteSets, TLC

\* ------------------------------------------------------------- bounds
\* longest degree sequence given to one invocation
MaxLen == 2
\* largest degree in a degree sequence
MaxDeg == 3
\* largest sum of |degree| of a degree sequence (odd sums are rejected)
MaxPoints == 5
\* integer seeds are 0..MaxSeed
MaxSeed == 23
\* two invocations with the same arguments: largest sum of |degree|, largest seed
TwinMaxPoints == 4
TwinMaxSeed == 5
\* two invocations with arguments of their own: largest sum of |degree|, largest seed
PairMaxPoints == 3
PairMaxSeed == 1

VARIABLES
  degrees,        \* [call] argument degrees
  seed,           \* [call] argument seed: an int, a Random instance or None
  debug,          \* [call] argument debug
  entry,          \* [call] the function the caller invoked
  pc,             \* [call] position of the invocation
  heap,           \* the Random objects that exist, by reference (1..Len)
  heap0,          \* the caller-owned Random objects as the callers built them
  rng,            \* [call] local rng: a reference into heap (0: not bound)
  cell_of_point,  \* [call] local cell_of_point
  points,         \* [call] local points
  pairs,          \* [call] local pairs
  mate,           \* [call] local mate
  i,              \* [call] loop index of the running for loop
  result,         \* [call] the PairingResult returned (<<>>: none)
  G,              \* [call] the MultiGraph built (<<>>: none)
  err,            \* [call] the exception raised ("": none)
  trace,          \* [call] the lines the invocation printed
  summary         \* [call] what the caller's pairing_summary returned

vars == <<degrees, seed, debug, entry, pc, heap, heap0, rng, cell_of_point,
          points, pairs, mate, i, result, G, err, trace, summary>>

\* ---------------------------------------------------- _build_points
NegativeDegree == "Degrees must be non-negative."
OddDegreeSum == "Sum of degrees must be even."

RECURSIVE Sum(_)
Sum(s) == IF s = <<>> THEN 0 ELSE Head(s) + Sum(Tail(s))

\* [v] * k
Repeat(v, k) == [j \in 1..k |-> v]

\* a faulty variant: cell v is given degrees[v] + 1 points but the last cell
LayoutOffByOne(degs, v) ==
  LET n == Len(degs)
      F[w \in 0..n] ==
        IF w >= n THEN <<>>
        ELSE Repeat(w, IF w < n - 1 THEN degs[w + 1] + 1 ELSE degs[w + 1]) \o F[w + 1]
  IN F[v]

\* for v, k in enumerate(degrees): cell_of_point.extend([v] * k), from cell v on
Layout(degs, v) ==
  LET n == Len(degs)
      F[w \in 0..n] == IF w >= n THEN <<>> ELSE Repeat(w, degs[w + 1]) \o F[w + 1]
  IN F[v]

\* a faulty variant: the parity of the sum is tested before the signs
build_points_sum_first(degs) ==
  IF Sum(degs) % 2 # 0 THEN [raised |-> OddDegreeSum, value |-> <<>>]
  ELSE IF \E k \in 1..Len(degs) : degs[k] < 0
       THEN [raised |-> NegativeDegree, value |-> <<>>]
       ELSE [raised |-> "", value |-> Layout(degs, 0)]

build_points_from_degrees(degs) ==
  IF \E k \in 1..Len(degs) : degs[k] < 0
  THEN [raised |-> NegativeDegree, value |-> <<>>]
  ELSE IF Sum(degs) % 2 # 0
       THEN [raised |-> OddDegreeSum, value |-> <<>>]
       ELSE [raised |-> "", value |-> Layout(degs, 0)]

\* ------------------------------------------------------ random.Random
\* The state of a Random object: s fixes every value it will draw, draws
\* counts the values drawn since it was seeded.
Seeded(k) == [s |-> k, draws |-> 0]

\* Random._randbelow(n): a value of 0..n-1 and the advanced state
RandBelow(r, n) ==
  [val |-> r.s % n, rng |-> [s |-> r.s \div n, draws |-> r.draws + 1]]

Swap(x, a, b) == [x EXCEPT ![a + 1] = x[b + 1], ![b + 1] = x[a + 1]]

\* Random.shuffle(x): for i in reversed(range(1, len(x))):
\*                        j = randbelow(i + 1); x[i], x[j] = x[j], x[i]
RECURSIVE ShuffleFrom(_, _, _)
ShuffleFrom(x, r, k) ==
  IF k < 1 THEN [x |-> x, rng |-> r]
  ELSE LET d == RandBelow(r, k + 1)
       IN ShuffleFrom(Swap(x, k, d.val), d.rng, k - 1)

shuffle(x, r) == ShuffleFrom(x, r, Len(x) - 1)

\* list(range(M))
Range(M) == [k \in 1..M |-> k - 1]

\* a faulty variant: Random(seed) also mixes in how many Random objects exist
ConstructFromGlobal(h, k) == Append(h, Seeded(k + Len(h)))

\* Random(k): a new Random object on the heap
Construct(h, k) == Append(h, Seeded(k))

\* a faulty variant: one module-level generator, reseeded, serves every invocation
BoundShared(h, sd) ==
  IF sd.kind = "Random" THEN [heap |-> h, ref |-> sd.val]
  ELSE IF Len(h) = 0 THEN [heap |-> Construct(h, sd.val), ref |-> 1]
       ELSE [heap |-> [h EXCEPT ![1] = Seeded(sd.val)], ref |-> 1]

\* rng = seed if isinstance(seed, Random) else Random(seed)
Bound(h, sd) ==
  IF sd.kind = "Random" THEN [heap |-> h, ref |-> sd.val]
  ELSE [heap |-> Construct(h, sd.val), ref |-> Len(h) + 1]

\* ---------------------------------------------------- the pairing loop
\* a faulty variant: only one direction of mate is set
PairStepOneWay(st, pts, k) ==
  LET p == pts[k + 1]
      q == pts[k + 2]
  IN [pairs |-> Append(st.pairs, <<p, q>>), mate |-> [st.mate EXCEPT ![p + 1] = q]]

\* a faulty variant: the block of position k is (k, k+2 mod M)
PairStepStride(st, pts, k) ==
  LET p == pts[k + 1]
      q == pts[((k + 2) % Len(pts)) + 1]
  IN [pairs |-> Append(st.pairs, <<p, q>>),
      mate |-> [[st.mate EXCEPT ![p + 1] = q] EXCEPT ![q + 1] = p]]

\* one iteration of for i in range(0, M, 2), at i = k
PairStep(st, pts, k) ==
  LET p == pts[k + 1]
      q == pts[k + 2]
  IN [pairs |-> Append(st.pairs, <<p, q>>),
      mate |-> [[st.mate EXCEPT ![p + 1] = q] EXCEPT ![q + 1] = p]]

\* pairs = [] and mate = [-1] * M
NoPairs(M) == [pairs |-> <<>>, mate |-> Repeat(-1, M)]

\* the whole loop, from i = k
RECURSIVE PairLoopFrom(_, _, _)
PairLoopFrom(st, pts, k) ==
  IF k >= Len(pts) THEN st ELSE PairLoopFrom(PairStep(st, pts, k), pts, k + 2)

PairingResult(ps, cop, mt) == [pairs |-> ps, cell_of_point |-> cop, mate |-> mt]

\* ---------------------------------------------------- pairing_summary
\* a faulty variant: the key keeps the order of the two cells
KeyAsIs(u, v) == <<u, v>>

\* key = (u, v) if u <= v else (v, u)
Key(u, v) == IF u <= v THEN <<u, v>> ELSE <<v, u>>

\* multiplicities.get(key, 0)
Get(mult, key) == IF key \in DOMAIN mult THEN mult[key] ELSE 0

\* multiplicities[key] = value
Put(mult, key, value) ==
  [x \in DOMAIN mult \cup {key} |-> IF x = key THEN value ELSE mult[x]]

\* loops_by_cell[u] += 1 with u >= n
IndexError == "list index out of range"

\* one iteration of for p, q in pairing.pairs, at the k-th pair
SummaryStep(pairing, acc, k) ==
  LET p == pairing.pairs[k][1]
      q == pairing.pairs[k][2]
      u == pairing.cell_of_point[p + 1]
      v == pairing.cell_of_point[q + 1]
      key == Key(u, v)
  IN [multiplicities |-> Put(acc.multiplicities, key, Get(acc.multiplicities, key) + 1),
      loops_by_cell |-> IF u = v /\ u < Len(acc.loops_by_cell)
                        THEN [acc.loops_by_cell EXCEPT ![u + 1] = @ + 1]
                        ELSE acc.loops_by_cell,
      raised |-> IF u = v /\ u >= Len(acc.loops_by_cell) THEN IndexError ELSE ""]

RECURSIVE SummaryLoop(_, _, _)
SummaryLoop(pairing, acc, k) ==
  IF k > Len(pairing.pairs) \/ acc.raised # "" THEN acc
  ELSE SummaryLoop(pairing, SummaryStep(pairing, acc, k), k + 1)

\* sum(1 for (u, v), c in multiplicities.items() if <loop> == (u == v) and c == j)
CountKeys(mult, loop, j) ==
  Cardinality({x \in DOMAIN mult : ((x[1] = x[2]) <=> loop) /\ mult[x] = j})

SummaryOf(pairing, n) ==
  LET acc == SummaryLoop(pairing,
                         [multiplicities |-> [x \in {} |-> 0],
                          loops_by_cell |-> Repeat(0, n),
                          raised |-> ""], 1)
  IN [raised |-> acc.raised,
      loops_total |-> Sum(acc.loops_by_cell),
      double_pairs |-> CountKeys(acc.multiplicities, FALSE, 2),
      triple_pairs |-> CountKeys(acc.multiplicities, FALSE, 3),
      double_loops |-> CountKeys(acc.multiplicities, TRUE, 2),
      multiplicities |-> acc.multiplicities]

\* a faulty variant: the summary orients every pair (smaller point first) in place
RECURSIVE Oriented(_)
Oriented(ps) ==
  IF ps = <<>> THEN <<>>
  ELSE <<IF Head(ps)[1] <= Head(ps)[2] THEN Head(ps)
         ELSE <<Head(ps)[2], Head(ps)[1]>>>> \o Oriented(Tail(ps))

pairing_summary_in_place(pairing, n) ==
  [raised |-> SummaryOf(pairing, n).raised,
   ret |-> SummaryOf(pairing, n),
   pairing |-> [pairing EXCEPT !.pairs = Oriented(pairing.pairs)]]

\* pairing_summary(pairing, n): the exception it raises or what it returns, and
\* the PairingResult object it was handed as the call leaves it
pairing_summary(pairing, n) ==
  [raised |-> SummaryOf(pairing, n).raised,
   ret |-> SummaryOf(pairing, n),
   pairing |-> pairing]

\* the doubled-cellpairs count of the debug trace (lines 118-125)
Doubles(mult) == Cardinality({x \in DOMAIN mult : x[1] # x[2] /\ mult[x] >= 2})

\* -------------------------------------------------------- nx.MultiGraph
\* nx.MultiGraph()
EmptyGraph == [nodes |-> {}, edges |-> <<>>]

\* a faulty variant: no node is created ahead of its first edge
add_no_nodes(g, n) == g

\* G.add_nodes_from(range(n))
add_nodes_from(g, n) == [g EXCEPT !.nodes = @ \cup 0..(n - 1)]

\* a faulty variant: a simple Graph, which keeps one edge per pair of cells
add_edge_simple(g, u, v) ==
  [nodes |-> g.nodes \cup {u, v},
   edges |-> IF \E k \in 1..Len(g.edges) : Key(g.edges[k][1], g.edges[k][2]) = Key(u, v)
             THEN g.edges ELSE Append(g.edges, <<u, v>>)]

\* G.add_edge(u, v)
add_edge(g, u, v) == [nodes |-> g.nodes \cup {u, v}, edges |-> Append(g.edges, <<u, v>>)]

\* G.number_of_edges(u, v)
number_of_edges(g, u, v) ==
  Cardinality({k \in 1..Len(g.edges) : Key(g.edges[k][1], g.edges[k][2]) = Key(u, v)})

\* G.degree(v): an edge counts once per end at v, so a self-loop counts twice
Degree(g, v) ==
  Cardinality({k \in 1..Len(g.edges) : g.edges[k][1] = v})
  + Cardinality({k \in 1..Len(g.edges) : g.edges[k][2] = v})

\* the loops and parallel_overcount of the debug trace (lines 170-176)
GraphLoops(g) == Cardinality({k \in 1..Len(g.edges) : g.edges[k][1] = g.edges[k][2]})

GraphParallel(g) ==
  Sum([k \in 1..Len(g.edges) |-> number_of_edges(g, g.edges[k][1], g.edges[k][2]) - 1])

\* ------------------------------------------------------------- the trace
Line(text, args) == [line |-> text, args |-> args]

\* print(...) when debug
Printed(tr, dbg, text, args) == IF dbg THEN Append(tr, Line(text, args)) ELSE tr

\* points[:10]
FirstTen(x) == SubSeq(x, 1, IF Len(x) < 10 THEN Len(x) ELSE 10)

\* ------------------------------------------------------------ the calls
Calls == DOMAIN pc

Set(f, c, v) == [f EXCEPT ![c] = v]

\* where mckay_wormald_random_pairing returns to
AfterPairing(c) == IF entry[c] = "multigraph" THEN "mg_nodes" ELSE "done"

\* the Random objects a call may be given or may seed itself from the OS
Entropy == 0..MaxSeed

\* mckay_wormald_multigraph, lines 156-161: the trace line, then the call of
\* mckay_wormald_random_pairing
MgEnter(c) ==
  /\ pc[c] = "mg_enter"
  /\ trace' = Set(trace, c, Printed(trace[c], debug[c], "[multigraph] Building from degrees",
                                    <<Len(degrees[c]), Sum(degrees[c])>>))
  /\ pc' = Set(pc, c, "bind")
  /\ UNCHANGED <<degrees, seed, debug, entry, heap, heap0, rng, cell_of_point, points,
                 pairs, mate, i, result, G, err, summary>>

\* line 92: rng = seed if isinstance(seed, Random) else Random(seed);
\* Random(None) seeds itself from the operating system
Bind(c) ==
  /\ pc[c] = "bind"
  /\ \E e \in Entropy :
       /\ seed[c].kind = "None" \/ e = 0
       /\ LET sd == IF seed[c].kind = "None" THEN [kind |-> "int", val |-> e] ELSE seed[c]
              b == Bound(heap, sd)
          IN /\ heap' = b.heap
             /\ rng' = Set(rng, c, b.ref)
  /\ pc' = Set(pc, c, "build")
  /\ UNCHANGED <<degrees, seed, debug, entry, heap0, cell_of_point, points, pairs, mate,
                 i, result, G, err, trace, summary>>

\* line 93: cell_of_point = _build_points_from_degrees(degrees); a ValueError
\* leaves both mckay_wormald_random_pairing and mckay_wormald_multigraph
Build(c) ==
  /\ pc[c] = "build"
  /\ LET r == build_points_from_degrees(degrees[c])
     IN IF r.raised # ""
        THEN /\ err' = Set(err, c, r.raised)
             /\ pc' = Set(pc, c, "raised")
             /\ UNCHANGED cell_of_point
        ELSE /\ cell_of_point' = Set(cell_of_point, c, r.value)
             /\ pc' = Set(pc, c, "start")
             /\ UNCHANGED err
  /\ UNCHANGED <<degrees, seed, debug, entry, heap, heap0, rng, points, pairs, mate, i,
                 result, G, trace, summary>>

\* lines 94-100: M = len(cell_of_point), the Start line, and the return of the
\* empty PairingResult when M == 0
Start(c) ==
  /\ pc[c] = "start"
  /\ LET M == Len(cell_of_point[c])
         t == Printed(trace[c], debug[c], "[random_pairing] Start", <<Len(degrees[c]), M>>)
     IN IF M = 0
        THEN /\ trace' = Set(trace, c, Printed(t, debug[c],
                                              "[random_pairing] Empty degree sequence", <<>>))
             /\ result' = Set(result, c, <<PairingResult(<<>>, <<>>, <<>>)>>)
             /\ pc' = Set(pc, c, AfterPairing(c))
        ELSE /\ trace' = Set(trace, c, t)
             /\ pc' = Set(pc, c, "shuffle")
             /\ UNCHANGED result
  /\ UNCHANGED <<degrees, seed, debug, entry, heap, heap0, rng, cell_of_point, points,
                 pairs, mate, i, G, err, summary>>

\* lines 102-108: points = list(range(M)); rng.shuffle(points); the Shuffled
\* line; pairs = []; mate = [-1] * M
ShufflePoints(c) ==
  /\ pc[c] = "shuffle"
  /\ LET M == Len(cell_of_point[c])
         sh == shuffle(Range(M), heap[rng[c]])
     IN /\ points' = Set(points, c, sh.x)
        /\ heap' = Set(heap, rng[c], sh.rng)
        /\ trace' = Set(trace, c, Printed(trace[c], debug[c],
                                         "[random_pairing] Shuffled points (first 10)",
                                         FirstTen(sh.x)))
        /\ pairs' = Set(pairs, c, NoPairs(M).pairs)
        /\ mate' = Set(mate, c, NoPairs(M).mate)
  /\ i' = Set(i, c, 0)
  /\ pc' = Set(pc, c, "pair")
  /\ UNCHANGED <<degrees, seed, debug, entry, heap0, rng, cell_of_point, result, G, err,
                 summary>>

\* lines 109-113: one iteration of for i in range(0, M, 2)
PairLoop(c) ==
  /\ pc[c] = "pair"
  /\ i[c] < Len(points[c])
  /\ LET st == PairStep([pairs |-> pairs[c], mate |-> mate[c]], points[c], i[c])
     IN /\ pairs' = Set(pairs, c, st.pairs)
        /\ mate' = Set(mate, c, st.mate)
  /\ i' = Set(i, c, i[c] + 2)
  /\ UNCHANGED <<degrees, seed, debug, entry, pc, heap, heap0, rng, cell_of_point, points,
                 result, G, err, trace, summary>>

\* line 114, and line 131 when debug is off
MakeResult(c) ==
  /\ pc[c] = "pair"
  /\ i[c] >= Len(points[c])
  /\ result' = Set(result, c, <<PairingResult(pairs[c], cell_of_point[c], mate[c])>>)
  /\ pc' = Set(pc, c, IF debug[c] THEN "debug_summary" ELSE AfterPairing(c))
  /\ UNCHANGED <<degrees, seed, debug, entry, heap, heap0, rng, cell_of_point, points,
                 pairs, mate, i, G, err, trace, summary>>

\* lines 115-131: the post-hoc summary of the debug path and the Done line
DebugSummary(c) ==
  /\ pc[c] = "debug_summary"
  /\ LET call == pairing_summary(result[c][1], Len(degrees[c]))
     IN /\ result' = Set(result, c, <<call.pairing>>)
        /\ IF call.raised # ""
           THEN /\ err' = Set(err, c, call.raised)
                /\ pc' = Set(pc, c, "raised")
                /\ UNCHANGED trace
           ELSE /\ trace' = Set(trace, c, Printed(trace[c], debug[c], "[random_pairing] Done",
                                                 <<Len(pairs[c]), call.ret.loops_total,
                                                   Doubles(call.ret.multiplicities)>>))
                /\ pc' = Set(pc, c, AfterPairing(c))
                /\ UNCHANGED err
  /\ UNCHANGED <<degrees, seed, debug, entry, heap, heap0, rng, cell_of_point, points,
                 pairs, mate, i, G, summary>>

\* lines 162-164: n = len(degrees); G = nx.MultiGraph(); G.add_nodes_from(range(n))
MgNodes(c) ==
  /\ pc[c] = "mg_nodes"
  /\ G' = Set(G, c, <<add_nodes_from(EmptyGraph, Len(degrees[c]))>>)
  /\ i' = Set(i, c, 0)
  /\ pc' = Set(pc, c, "mg_edge")
  /\ UNCHANGED <<degrees, seed, debug, entry, heap, heap0, rng, cell_of_point, points,
                 pairs, mate, result, err, trace, summary>>

\* lines 165-168: one iteration of for p, q in pairing.pairs
MgEdge(c) ==
  /\ pc[c] = "mg_edge"
  /\ i[c] < Len(result[c][1].pairs)
  /\ LET pairing == result[c][1]
         p == pairing.pairs[i[c] + 1][1]
         q == pairing.pairs[i[c] + 1][2]
         u == pairing.cell_of_point[p + 1]
         v == pairing.cell_of_point[q + 1]
     IN G' = Set(G, c, <<add_edge(G[c][1], u, v)>>)
  /\ i' = Set(i, c, i[c] + 1)
  /\ UNCHANGED <<degrees, seed, debug, entry, pc, heap, heap0, rng, cell_of_point, points,
                 pairs, mate, result, err, trace, summary>>

\* lines 169-181: the Done line and return G
MgReturn(c) ==
  /\ pc[c] = "mg_edge"
  /\ i[c] >= Len(result[c][1].pairs)
  /\ trace' = Set(trace, c, Printed(trace[c], debug[c], "[multigraph] Done",
                                    <<Len(G[c][1].edges), GraphLoops(G[c][1]),
                                      GraphParallel(G[c][1])>>))
  /\ pc' = Set(pc, c, "done")
  /\ UNCHANGED <<degrees, seed, debug, entry, heap, heap0, rng, cell_of_point, points,
                 pairs, mate, i, result, G, err, summary>>

\* the caller of mckay_wormald_random_pairing passes what it got to
\* pairing_summary(result, len(degrees)), lines 184-222
Summarize(c) ==
  /\ pc[c] = "done"
  /\ entry[c] = "pairing"
  /\ LET call == pairing_summary(result[c][1], Len(degrees[c]))
     IN /\ result' = Set(result, c, <<call.pairing>>)
        /\ IF call.raised # ""
           THEN /\ err' = Set(err, c, call.raised)
                /\ pc' = Set(pc, c, "raised")
                /\ UNCHANGED summary
           ELSE /\ summary' = Set(summary, c, <<call.ret>>)
                /\ pc' = Set(pc, c, "summarized")
                /\ UNCHANGED err
  /\ UNCHANGED <<degrees, seed, debug, entry, heap, heap0, rng, cell_of_point, points,
                 pairs, mate, i, G, trace>>

Next ==
  \/ \E c \in Calls : MgEnter(c)
  \/ \E c \in Calls : Bind(c)
  \/ \E c \in Calls : Build(c)
  \/ \E c \in Calls : Start(c)
  \/ \E c \in Calls : ShufflePoints(c)
  \/ \E c \in Calls : PairLoop(c)
  \/ \E c \in Calls : MakeResult(c)
  \/ \E c \in Calls : DebugSummary(c)
  \/ \E c \in Calls : MgNodes(c)
  \/ \E c \in Calls : MgEdge(c)
  \/ \E c \in Calls : MgReturn(c)
  \/ \E c \in Calls : Summarize(c)

\* ------------------------------------------------------------ the inputs
Abs(x) == IF x < 0 THEN -x ELSE x

\* degree sequences of at most maxLen cells, degrees -1..maxDeg, at most
\* maxPoints points
DegreeSeqsOf(maxLen, maxDeg, maxPoints) ==
  {d \in UNION {[1..n -> -1..maxDeg] : n \in 0..maxLen} :
     Sum([k \in 1..Len(d) |-> Abs(d[k])]) <= maxPoints}

DegreeSeqs == DegreeSeqsOf(MaxLen, MaxDeg, MaxPoints)

Entries == {"pairing", "multigraph"}

Entered(e) == IF e = "multigraph" THEN "mg_enter" ELSE "bind"

\* the locals of a call that has not run yet
Fresh(n) ==
  /\ rng = [c \in 1..n |-> 0]
  /\ cell_of_point = [c \in 1..n |-> <<>>]
  /\ points = [c \in 1..n |-> <<>>]
  /\ pairs = [c \in 1..n |-> <<>>]
  /\ mate = [c \in 1..n |-> <<>>]
  /\ i = [c \in 1..n |-> 0]
  /\ result = [c \in 1..n |-> <<>>]
  /\ G = [c \in 1..n |-> <<>>]
  /\ err = [c \in 1..n |-> ""]
  /\ trace = [c \in 1..n |-> <<>>]
  /\ summary = [c \in 1..n |-> <<>>]

\* One invocation: any degree sequence, an int seed, None, or a Random object
\* the caller built from an int.
Init ==
  /\ \E d \in DegreeSeqs : degrees = <<d>>
  /\ \E dbg \in BOOLEAN : debug = <<dbg>>
  /\ \E e \in Entries : entry = <<e>> /\ pc = <<Entered(e)>>
  /\ \E k \in 0..MaxSeed :
       \/ seed = <<[kind |-> "int", val |-> k]>> /\ heap = <<>>
       \/ seed = <<[kind |-> "Random", val |-> 1]>> /\ heap = <<Seeded(k)>>
       \/ k = 0 /\ seed = <<[kind |-> "None", val |-> 0]>> /\ heap = <<>>
  /\ heap0 = heap
  /\ Fresh(1)

Spec == Init /\ [][Next]_vars

\* at most one cell per two points (rounded up)
MaxCells(maxPoints) == (maxPoints + 1) \div 2

TwinDegreeSeqs == DegreeSeqsOf(MaxCells(TwinMaxPoints), TwinMaxPoints, TwinMaxPoints)

\* without negative degrees: an odd sum is what makes a call of the pair raise
PairDegreeSeqs ==
  {d \in DegreeSeqsOf(MaxCells(PairMaxPoints), PairMaxPoints, PairMaxPoints) :
     \A k \in 1..Len(d) : d[k] >= 0}

\* Two invocations of one function with the same degrees and the same seed:
\* the same int, or two Random objects the caller built from the same int.
InitTwin ==
  /\ \E d \in TwinDegreeSeqs : degrees = <<d, d>>
  /\ debug \in [1..2 -> BOOLEAN]
  /\ \E e \in Entries : entry = <<e, e>> /\ pc = <<Entered(e), Entered(e)>>
  /\ \E k \in 0..TwinMaxSeed :
       \/ seed = <<[kind |-> "int", val |-> k], [kind |-> "int", val |-> k]>> /\ heap = <<>>
       \/ /\ seed = <<[kind |-> "Random", val |-> 1], [kind |-> "Random", val |-> 2]>>
          /\ heap = <<Seeded(k), Seeded(k)>>
  /\ heap0 = heap
  /\ Fresh(2)

SpecTwin == InitTwin /\ [][Next]_vars

\* Two invocations of one function, each with degrees and a seed of its own:
\* two ints, two Random objects, or one Random object handed to both.  The two
\* invocations are interchangeable, so the first is given the smaller seed.
InitPair ==
  /\ degrees \in [1..2 -> PairDegreeSeqs]
  /\ \E dbg \in BOOLEAN : debug = <<dbg, dbg>>
  /\ \E e \in Entries : entry = <<e, e>> /\ pc = <<Entered(e), Entered(e)>>
  /\ \E k1 \in 0..PairMaxSeed, k2 \in 0..PairMaxSeed :
       /\ k1 <= k2
       /\ \/ seed = <<[kind |-> "int", val |-> k1], [kind |-> "int", val |-> k2]>> /\ heap = <<>>
          \/ /\ seed = <<[kind |-> "Random", val |-> 1], [kind |-> "Random", val |-> 2]>>
             /\ heap = <<Seeded(k1), Seeded(k2)>>
          \/ /\ k1 = k2
             /\ seed = <<[kind |-> "Random", val |-> 1], [kind |-> "Random", val |-> 1]>>
             /\ heap = <<Seeded(k1)>>
  /\ heap0 = heap
  /\ Fresh(2)

SpecPair == InitPair /\ [][Next]_vars

\* ------------------------------------------------- helpers of the claims
Returned(c) == Len(result[c]) = 1

\* how many ends of pairs are the point p
Occurrences(ps, p) ==
  Cardinality({e \in (1..Len(ps)) \X {1, 2} : ps[e[1]][e[2]] = p})

\* how many entries of the list x are v
CountIn(x, v) == Cardinality({k \in 1..Len(x) : x[k] = v})

Valid(d) == (\A k \in 1..Len(d) : d[k] >= 0) /\ Sum(d) % 2 = 0

RECURSIVE SumValues(_)
SumValues(f) ==
  IF DOMAIN f = {} THEN 0
  ELSE LET x == CHOOSE y \in DOMAIN f : TRUE
       IN f[x] + SumValues([y \in DOMAIN f \ {x} |-> f[y]])

\* the PairingResult r is a perfect matching of the points 0..M-1
IsPerfectMatching(r, M) ==
  /\ Len(r.pairs) * 2 = M
  /\ Len(r.mate) = M
  /\ \A p \in 0..(M - 1) : Occurrences(r.pairs, p) = 1
  /\ \A k \in 1..Len(r.pairs) :
       /\ r.mate[r.pairs[k][1] + 1] = r.pairs[k][2]
       /\ r.mate[r.pairs[k][2] + 1] = r.pairs[k][1]
  /\ \A p \in 0..(M - 1) :
       /\ r.mate[p + 1] \in 0..(M - 1)
       /\ r.mate[p + 1] # p
       /\ r.mate[r.mate[p + 1] + 1] = p

\* ------------------------------------------------------------------ C1
\* C1: the PairingResult returned is a perfect matching of the points 0..M-1:
\* M/2 pairs, every point in exactly one pair, mate agrees with pairs in both
\* directions, and mate is an involution of 0..M-1 without fixed point (no -1
\* is left).
PerfectMatching ==
  \A c \in Calls : Returned(c) => IsPerfectMatching(result[c][1], Sum(degrees[c]))

PerfectMatchingWitness ==
  \E c \in Calls :
    /\ pc[c] = "done"
    /\ degrees[c] = <<2, 2>>
    /\ Returned(c)
    /\ result[c][1].pairs = <<<<3, 0>>, <<1, 2>>>>
    /\ result[c][1].mate = <<3, 2, 1, 0>>

\* ------------------------------------------------------------------ C2
\* the list holds cell v exactly degs[v] times, in ascending cell order (so the
\* occurrences of a cell are consecutive), and has sum(degs) entries
LaidOut(x, degs) ==
  /\ Len(x) = Sum(degs)
  /\ \A v \in 0..(Len(degs) - 1) : CountIn(x, v) = degs[v + 1]
  /\ \A k \in 1..(Len(x) - 1) : x[k] <= x[k + 1]

\* C2: for a valid degree sequence _build_points_from_degrees returns M entries,
\* cell v exactly degrees[v] times, ascending and consecutive; the list is fixed
\* by degrees alone, whatever the seed and the shuffle, and it is the
\* cell_of_point of the PairingResult returned when M > 0.
DegreeFidelity ==
  \A c \in Calls :
    /\ pc[c] \notin {"mg_enter", "bind", "build", "raised"} =>
         /\ Valid(degrees[c])
         /\ LaidOut(cell_of_point[c], degrees[c])
    /\ (Returned(c) /\ Sum(degrees[c]) > 0) =>
         /\ result[c][1].cell_of_point = cell_of_point[c]
         /\ LaidOut(result[c][1].cell_of_point, degrees[c])

DegreeFidelityWitness ==
  \E c \in Calls :
    /\ degrees[c] = <<2, 2>>
    /\ Returned(c)
    /\ result[c][1].cell_of_point = <<0, 0, 1, 1>>
    /\ heap[rng[c]].draws > 0

\* ------------------------------------------------------------------ C3
\* C3: the multigraph returned has exactly the nodes 0..n-1, one edge per pair
\* (M/2 edges, self-loops and parallel edges kept), and every node v has degree
\* degrees[v], a self-loop counting twice.
MultigraphFidelity ==
  \A c \in Calls :
    (pc[c] = "done" /\ entry[c] = "multigraph") =>
      LET g == G[c][1]
          r == result[c][1]
          n == Len(degrees[c])
      IN /\ g.nodes = 0..(n - 1)
         /\ Len(g.edges) * 2 = Sum(degrees[c])
         /\ Len(g.edges) = Len(r.pairs)
         /\ \A k \in 1..Len(r.pairs) :
              g.edges[k] = <<r.cell_of_point[r.pairs[k][1] + 1],
                             r.cell_of_point[r.pairs[k][2] + 1]>>
         /\ \A v \in 0..(n - 1) : Degree(g, v) = degrees[c][v + 1]

MultigraphFidelityWitness ==
  \E c \in Calls :
    /\ pc[c] = "done"
    /\ entry[c] = "multigraph"
    /\ degrees[c] = <<2, 2>>
    /\ Len(G[c][1].edges) = 2
    /\ number_of_edges(G[c][1], 0, 1) = 2

\* ------------------------------------------------------------------ C4
\* C4: a degree < 0 raises the NegativeDegree error, also when the sum is odd
\* ([-1, 2]); degrees >= 0 with an odd sum raise the OddDegreeSum error
\* ([1, 2]); the call then stops before any pairing work: nothing is shuffled,
\* no Random object has drawn, and no PairingResult or multigraph exists.
EagerValidation ==
  \A c \in Calls :
    LET d == degrees[c]
        negative == \E k \in 1..Len(d) : d[k] < 0
        odd == Sum(d) % 2 # 0
    IN /\ pc[c] \notin {"mg_enter", "bind", "build"} =>
            /\ negative => (pc[c] = "raised" /\ err[c] = NegativeDegree)
            /\ (~negative /\ odd) => (pc[c] = "raised" /\ err[c] = OddDegreeSum)
            /\ Valid(d) => (pc[c] # "raised" /\ err[c] = "")
       /\ pc[c] = "raised" =>
            /\ points[c] = <<>> /\ pairs[c] = <<>> /\ mate[c] = <<>>
            /\ result[c] = <<>>
            /\ G[c] = <<>>
            /\ heap[rng[c]].draws = 0
            /\ seed[c].kind = "Random" => heap[seed[c].val] = heap0[seed[c].val]
       /\ (pc[c] = "raised" /\ d = <<-1, 2>>) => err[c] = NegativeDegree
       /\ (pc[c] = "raised" /\ d = <<1, 2>>) => err[c] = OddDegreeSum

EagerValidationWitness ==
  \E c \in Calls :
    /\ pc[c] = "raised"
    /\ degrees[c] = <<-1, 2>>
    /\ err[c] = NegativeDegree
    /\ seed[c].kind = "Random"
    /\ entry[c] = "multigraph"

\* ------------------------------------------------------------------ C5
\* the orders the shuffle can leave list(range(M)) in
Perms(M) ==
  {x \in [1..M -> 0..(M - 1)] : \A a, b \in 1..M : a # b => x[a] # x[b]}

\* the mate array the loop of lines 107-113 builds from the order x
Blocking(x) == PairLoopFrom(NoPairs(Len(x)), x, 0).mate

EvenSizes == {M \in 0..MaxPoints : M % 2 = 0}

\* for every mate array the loop can build from M points, how many of the M!
\* orders it is built from
BlockCount ==
  [M \in EvenSizes |->
     LET built == {Blocking(x) : x \in Perms(M)}
     IN [m \in built |-> Cardinality({x \in Perms(M) : Blocking(x) = m})]]

RECURSIVE Fact(_)
Fact(n) == IF n <= 1 THEN 1 ELSE n * Fact(n - 1)

\* n!! for odd n
RECURSIVE DoubleFact(_)
DoubleFact(n) == IF n <= 1 THEN 1 ELSE n * DoubleFact(n - 2)

RECURSIVE Pow2(_)
Pow2(n) == IF n <= 0 THEN 1 ELSE 2 * Pow2(n - 1)

\* C5: the blocking of positions (2i, 2i+1) takes the same number of orders,
\* 2^(M/2) * (M/2)!, onto each matching, and the matchings it reaches are
\* (M-1)!! in number (by C1 each is a perfect matching, so they are all of
\* them): a uniform shuffle gives a uniform pairing.  For degrees = [2, 2] the
\* matching returned is one of 3 and comes from 8 of the 24 orders.
UniformPairing ==
  \A c \in Calls :
    (Returned(c) /\ Len(result[c][1].mate) > 0) =>
      LET m == result[c][1].mate
          M == Len(m)
      IN /\ m \in DOMAIN BlockCount[M]
         /\ BlockCount[M][m] = Pow2(M \div 2) * Fact(M \div 2)
         /\ Cardinality(DOMAIN BlockCount[M]) = DoubleFact(M - 1)
         /\ BlockCount[M][m] * Cardinality(DOMAIN BlockCount[M]) = Fact(M)
         /\ degrees[c] = <<2, 2>> =>
              (BlockCount[M][m] = 8 /\ Cardinality(DOMAIN BlockCount[M]) = 3)

UniformPairingWitness ==
  \E c \in Calls :
    /\ pc[c] = "done"
    /\ degrees[c] = <<2, 2>>
    /\ Returned(c)
    /\ result[c][1].mate = <<2, 3, 0, 1>>
    /\ BlockCount[4][result[c][1].mate] = 8

\* ------------------------------------------------------------------ C7
\* the cells of the two points of the k-th pair of the PairingResult r
CellsOf(r, k) ==
  {r.cell_of_point[r.pairs[k][1] + 1], r.cell_of_point[r.pairs[k][2] + 1]}

\* the pairs of the PairingResult r whose two points lie in the same cell
LoopPairs(r) ==
  {k \in 1..Len(r.pairs) :
     r.cell_of_point[r.pairs[k][1] + 1] = r.cell_of_point[r.pairs[k][2] + 1]}

\* C7: pairing_summary(result, n) on a PairingResult the generator returned:
\* the keys of multiplicities are the cell-pairs (u, v), u <= v, of the pairs,
\* every value is >= 1, the values sum to M/2, loops_total is the number of
\* pairs inside one cell (the sum of the multiplicities of the keys (u, u)),
\* and the PairingResult is as the generator built it.
SummaryConsistency ==
  \A c \in Calls :
    pc[c] = "summarized" =>
      LET r == result[c][1]
          sm == summary[c][1]
          mult == sm.multiplicities
      IN /\ sm.raised = "" /\ err[c] = ""
         /\ \A x \in DOMAIN mult : x[1] <= x[2] /\ mult[x] >= 1
         /\ \A x \in DOMAIN mult : x[1] \in 0..(Len(degrees[c]) - 1)
                                   /\ x[2] \in 0..(Len(degrees[c]) - 1)
         /\ \A k \in 1..Len(r.pairs) :
              \E x \in DOMAIN mult : {x[1], x[2]} = CellsOf(r, k)
         /\ \A x \in DOMAIN mult :
              mult[x] = Cardinality({k \in 1..Len(r.pairs) : CellsOf(r, k) = {x[1], x[2]}})
         /\ SumValues(mult) * 2 = Sum(degrees[c])
         /\ sm.loops_total = Cardinality(LoopPairs(r))
         /\ sm.loops_total = SumValues([x \in {y \in DOMAIN mult : y[1] = y[2]} |-> mult[x]])
         /\ r = PairingResult(pairs[c], cell_of_point[c], mate[c])

SummaryConsistencyWitness ==
  \E c \in Calls :
    /\ pc[c] = "summarized"
    /\ degrees[c] = <<1, 3>>
    /\ result[c][1].pairs = <<<<2, 0>>, <<3, 1>>>>
    /\ summary[c][1].multiplicities = (<<0, 1>> :> 1) @@ (<<1, 1>> :> 1)
    /\ summary[c][1].loops_total = 1

\* ------------------------------------------------------------------ C8
\* C8: when every degree is 0 (the empty sequence included) the call raises
\* nothing, returns the PairingResult of three empty lists and draws nothing
\* from any Random object; the multigraph then has the n nodes and no edge.
EmptyPairing ==
  \A c \in Calls :
    (\A k \in 1..Len(degrees[c]) : degrees[c][k] = 0) =>
      /\ pc[c] # "raised" /\ err[c] = ""
      /\ pc[c] \notin {"shuffle", "pair", "debug_summary"}
      /\ points[c] = <<>>
      /\ rng[c] # 0 => heap[rng[c]].draws = 0
      /\ seed[c].kind = "Random" => heap[seed[c].val] = heap0[seed[c].val]
      /\ pc[c] \in {"done", "summarized", "mg_nodes", "mg_edge"} =>
           result[c] = <<PairingResult(<<>>, <<>>, <<>>)>>
      /\ (pc[c] = "done" /\ entry[c] = "multigraph") =>
           /\ G[c][1].nodes = 0..(Len(degrees[c]) - 1)
           /\ Cardinality(G[c][1].nodes) = Len(degrees[c])
           /\ G[c][1].edges = <<>>

EmptyPairingWitness ==
  \E c \in Calls :
    /\ degrees[c] = <<0, 0>>
    /\ pc[c] = "done"
    /\ entry[c] = "multigraph"
    /\ seed[c].kind = "Random"
    /\ G[c][1] = [nodes |-> {0, 1}, edges |-> <<>>]

\* -------------------------------------------- helpers of C6, C9 and C10
Finished(c) == pc[c] \in {"done", "summarized", "raised"}

\* the state of the Random object of call c when the call began
Source0(c) == IF seed[c].kind = "Random" THEN heap0[seed[c].val] ELSE Seeded(seed[c].val)

\* calls c and d were given equal degrees and equal seeds: the same int, or two
\* Random objects in the same state
SameArguments(c, d) ==
  /\ degrees[c] = degrees[d]
  /\ entry[c] = entry[d]
  /\ seed[c].kind = seed[d].kind
  /\ seed[c].kind = "int" => seed[c].val = seed[d].val
  /\ seed[c].kind = "Random" => (seed[c].val # seed[d].val /\ Source0(c) = Source0(d))

\* ------------------------------------------------------------------ C6
\* C6: two invocations with the same degrees and the same seed (the same int,
\* or Random objects in the same state) end alike under every interleaving:
\* the same error or the same PairingResult, field by field and in the same
\* order, the same multigraph, and Random objects left in the same state.
Reproducible ==
  \A c, d \in Calls :
    (c # d /\ SameArguments(c, d)) =>
      /\ (Returned(c) /\ Returned(d)) => result[c] = result[d]
      /\ (Finished(c) /\ Finished(d)) =>
           /\ err[c] = err[d]
           /\ (pc[c] = "raised") <=> (pc[d] = "raised")
           /\ result[c] = result[d]
           /\ G[c] = G[d]
           /\ heap[rng[c]] = heap[rng[d]]

ReproducibleWitness ==
  /\ Calls = {1, 2}
  /\ SameArguments(1, 2)
  /\ seed[1].kind = "int" /\ seed[1].val = 5
  /\ degrees[1] = <<2, 2>>
  /\ pc[1] = "done" /\ pc[2] = "done"
  /\ result[1][1].pairs = <<<<2, 0>>, <<3, 1>>>>
  /\ result[2][1].pairs = <<<<2, 0>>, <<3, 1>>>>

\* ------------------------------------------------------------------ C9
\* C9: with the same degrees and seed, the call with debug=True ends as the
\* call with debug=False does: the same value returned, the same error, the
\* Random object in the same state; the summary of the debug path raises
\* nothing and leaves the PairingResult as the loop built it.
DebugObservational ==
  \A c, d \in Calls :
    (c # d /\ SameArguments(c, d) /\ debug[c] /\ ~debug[d]) =>
      /\ err[c] # IndexError
      /\ (Returned(c) /\ Len(points[c]) > 0) =>
           result[c][1] = PairingResult(pairs[c], cell_of_point[c], mate[c])
      /\ (Finished(c) /\ Finished(d)) =>
           /\ err[c] = err[d]
           /\ (pc[c] = "raised") <=> (pc[d] = "raised")
           /\ result[c] = result[d]
           /\ G[c] = G[d]
           /\ heap[rng[c]] = heap[rng[d]]
           /\ trace[d] = <<>>

DebugObservationalWitness ==
  /\ Calls = {1, 2}
  /\ SameArguments(1, 2)
  /\ debug[1] /\ ~debug[2]
  /\ entry[1] = "multigraph"
  /\ degrees[1] = <<2, 2>>
  /\ pc[1] = "done" /\ pc[2] = "done"
  /\ Len(trace[1]) = 5
  /\ result[1][1].pairs = <<<<2, 0>>, <<3, 1>>>>
  /\ heap[rng[1]].draws = 3

\* ----------------------------------------------------------------- C10
\* no other call was handed the Random object of call c
OwnSource(c) ==
  seed[c].kind = "Random" =>
    \A d \in Calls \ {c} : ~(seed[d].kind = "Random" /\ seed[d].val = seed[c].val)

\* what call c holds at its position when it runs alone from its degrees and
\* its Random object
Alone(c) ==
  LET b == build_points_from_degrees(degrees[c])
      M == Len(b.value)
      sh == shuffle(Range(M), Source0(c))
      built == b.raised = "" /\ pc[c] \notin {"mg_enter", "bind", "build"}
      shuffled == built /\ M > 0 /\ pc[c] # "start" /\ pc[c] # "shuffle"
      done == IF pc[c] = "pair" THEN i[c] ELSE M
      st == PairLoopFrom(NoPairs(M), SubSeq(sh.x, 1, done), 0)
  IN [raised |-> IF pc[c] \in {"mg_enter", "bind", "build"} THEN "" ELSE b.raised,
      source |-> IF shuffled THEN sh.rng ELSE Source0(c),
      cell_of_point |-> IF built THEN b.value ELSE <<>>,
      points |-> IF shuffled THEN sh.x ELSE <<>>,
      pairs |-> IF shuffled THEN st.pairs ELSE <<>>,
      mate |-> IF shuffled THEN st.mate ELSE <<>>,
      result |-> IF ~built \/ pc[c] \in {"start", "shuffle", "pair"} THEN <<>>
                 ELSE IF M = 0 THEN <<PairingResult(<<>>, <<>>, <<>>)>>
                 ELSE <<PairingResult(st.pairs, b.value, st.mate)>>]

\* C10: two invocations with Random objects of their own, under every
\* interleaving of their steps: at every position each holds the points, pairs,
\* mate, result and Random state it holds there when it runs alone (the other
\* has written none of them and it has read none of the other's), and what it
\* returns is a perfect matching.
Isolation ==
  \A c \in Calls :
    OwnSource(c) =>
      LET a == Alone(c)
      IN /\ err[c] = a.raised
         /\ (pc[c] = "raised") <=> (a.raised # "")
         /\ rng[c] # 0 => heap[rng[c]] = a.source
         /\ cell_of_point[c] = a.cell_of_point
         /\ points[c] = a.points
         /\ pairs[c] = a.pairs
         /\ mate[c] = a.mate
         /\ result[c] = a.result
         /\ Returned(c) => IsPerfectMatching(result[c][1], Sum(degrees[c]))

IsolationWitness ==
  /\ Calls = {1, 2}
  /\ OwnSource(1) /\ OwnSource(2)
  /\ degrees[1] = <<1, 1>> /\ degrees[2] = <<2>>
  /\ pc[1] = "pair" /\ i[1] = 0
  /\ pc[2] = "pair" /\ i[2] = 2
  /\ points[1] = <<1, 0>>
  /\ points[2] = <<0, 1>>
  /\ heap[rng[1]].draws = 1 /\ heap[rng[2]].draws = 1

\* two calls were handed one Random object and both have shuffled with it
SharedSourceReached ==
  /\ Calls = {1, 2}
  /\ ~OwnSource(1)
  /\ pc[1] = "done" /\ pc[2] = "done"
  /\ heap[rng[1]].draws = 2

====
